---------------------------- MODULE Spec2Model ----------------------------
(***************************************************************************)
(* Model of cake.vector.Vector (src/cake/vector.py), a UserList subclass   *)
(* whose operators are all routed through apply / apply_bin.               *)
(*                                                                         *)
(* Python values are tagged records:                                       *)
(*   I(n)     an int                 NoneV    None                         *)
(*   L(s)     a plain list           V(s)     a Vector (by content)        *)
(*   F(n, d)  a float, kept as the exact fraction n/d in lowest terms      *)
(*   T2(x, y) a 2-tuple                                                    *)
(* An evaluation yields an outcome: Ok(v) (a value is returned) or         *)
(* Raise(e) (exception e propagates and nothing is returned).              *)
(***************************************************************************)
EXTENDS Integers, Sequences, FiniteSets, TLC

\* ------------------------------------------------------------ bounds
\* Longest Vector / plain list drawn as an input.
MaxLen == 2
\* Input ints are drawn from 0..MaxInt.
MaxInt == 1

\* ------------------------------------------------------------ values
I(n) == [t |-> "int", n |-> n]
NoneV == [t |-> "none"]
L(s) == [t |-> "list", items |-> s]
V(s) == [t |-> "vec", items |-> s]
T2(x, y) == [t |-> "tuple", fst |-> x, snd |-> y]

Ok(v) == [exc |-> "none", v |-> v]
Raise(e) == [exc |-> e]

Abs(n) == IF n < 0 THEN -n ELSE n
Min(m, k) == IF m < k THEN m ELSE k

RECURSIVE Gcd(_, _)
Gcd(m, k) == IF k = 0 THEN m ELSE Gcd(k, m % k)

\* A float n/d (d # 0), normalised: lowest terms, positive denominator.
F(n, d) ==
    LET g == Gcd(Abs(n), Abs(d))
        s == IF d < 0 THEN -1 ELSE 1
    IN  [t |-> "float", num |-> s * (n \div g), den |-> s * (d \div g)]

\* Python's int // and % (floor semantics, sign of the divisor), y # 0.
FloorDiv(x, y) == x \div y
PyMod(x, y) == x - y * (x \div y)

RECURSIVE IntPow(_, _)
IntPow(b, e) == IF e = 0 THEN 1 ELSE b * IntPow(b, e - 1)

\* Python's & | ^ on unbounded two's-complement ints.
RECURSIVE BitAnd(_, _)
BitAnd(x, y) ==
    IF x = 0 \/ y = 0 THEN 0
    ELSE IF x = -1 THEN y
    ELSE IF y = -1 THEN x
    ELSE 2 * BitAnd(x \div 2, y \div 2) + PyMod(x, 2) * PyMod(y, 2)

RECURSIVE BitOr(_, _)
BitOr(x, y) ==
    IF x = 0 THEN y
    ELSE IF y = 0 THEN x
    ELSE IF x = -1 \/ y = -1 THEN -1
    ELSE 2 * BitOr(x \div 2, y \div 2)
         + (IF PyMod(x, 2) = 1 \/ PyMod(y, 2) = 1 THEN 1 ELSE 0)

BitXor(x, y) == BitOr(x, y) - BitAnd(x, y)

RECURSIVE Repeat(_, _)
Repeat(s, n) == IF n <= 0 THEN <<>> ELSE s \o Repeat(s, n - 1)

\* x OP y for two ints.
IntOp(name, x, y) ==
    CASE name = "add" -> Ok(I(x + y))
      [] name = "sub" -> Ok(I(x - y))
      [] name = "mul" -> Ok(I(x * y))
      [] name = "truediv" ->
            IF y = 0 THEN Raise("ZeroDivisionError") ELSE Ok(F(x, y))
      [] name = "floordiv" ->
            IF y = 0 THEN Raise("ZeroDivisionError") ELSE Ok(I(FloorDiv(x, y)))
      [] name = "mod" ->
            IF y = 0 THEN Raise("ZeroDivisionError") ELSE Ok(I(PyMod(x, y)))
      [] name = "pow" ->
            IF y >= 0 THEN Ok(I(IntPow(x, y)))
            ELSE IF x = 0 THEN Raise("ZeroDivisionError")
            ELSE Ok(F(1, IntPow(x, -y)))
      [] name = "lshift" ->
            IF y < 0 THEN Raise("ValueError") ELSE Ok(I(x * IntPow(2, y)))
      [] name = "rshift" ->
            IF y < 0 THEN Raise("ValueError") ELSE Ok(I(x \div IntPow(2, y)))
      [] name = "and" -> Ok(I(BitAnd(x, y)))
      [] name = "xor" -> Ok(I(BitXor(x, y)))
      [] name = "or" -> Ok(I(BitOr(x, y)))


\* x OP y when both are numbers and at least one is a float (exact fractions).
\* Float exponents are not modelled (no CASE arm): they are never reached.
FloatOp(name, x, y) ==
    LET an == IF x.t = "int" THEN x.n ELSE x.num
        ad == IF x.t = "int" THEN 1 ELSE x.den
        bn == IF y.t = "int" THEN y.n ELSE y.num
        bd == IF y.t = "int" THEN 1 ELSE y.den
    IN  CASE name = "add" -> Ok(F(an * bd + bn * ad, ad * bd))
          [] name = "sub" -> Ok(F(an * bd - bn * ad, ad * bd))
          [] name = "mul" -> Ok(F(an * bn, ad * bd))
          [] name = "truediv" ->
                IF bn = 0 THEN Raise("ZeroDivisionError")
                ELSE Ok(F(an * bd, ad * bn))
          [] name = "floordiv" ->
                IF bn = 0 THEN Raise("ZeroDivisionError")
                ELSE Ok(F((an * bd) \div (ad * bn), 1))
          [] name = "mod" ->
                IF bn = 0 THEN Raise("ZeroDivisionError")
                ELSE LET q == (an * bd) \div (ad * bn)
                     IN  Ok(F(an * bd - q * bn * ad, ad * bd))
          [] name \in {"lshift", "rshift", "and", "xor", "or"} ->
                Raise("TypeError")

\* ------------------------------------------------------------ lambdas
\* The two-argument lambdas handed to apply_bin: `lambda x, y: x OP y`
\* (refl = FALSE) and `lambda x, y: y OP x` (refl = TRUE).
Lam(name, refl) == [name |-> name, refl |-> refl]

OpNames ==
    {"add", "sub", "mul", "truediv", "floordiv", "mod", "pow",
     "lshift", "rshift", "and", "xor", "or"}

\* `x OP y` between two values that are not Vectors: ints, floats, None and
\* plain lists.  (A Vector never occurs as an element here: receivers and
\* Vector operands hold ints.)
ElemOp(name, x, y) ==
    CASE x.t = "int" /\ y.t = "int" -> IntOp(name, x.n, y.n)
      [] {x.t, y.t} = {"int", "float"} \/ {x.t, y.t} = {"float"} ->
            FloatOp(name, x, y)
      [] x.t = "list" /\ y.t = "list" ->
            IF name = "add" THEN Ok(L(x.items \o y.items))
            ELSE Raise("TypeError")
      [] x.t = "list" /\ y.t = "int" ->
            IF name = "mul" THEN Ok(L(Repeat(x.items, y.n)))
            ELSE Raise("TypeError")
      [] x.t = "int" /\ y.t = "list" ->
            IF name = "mul" THEN Ok(L(Repeat(y.items, x.n)))
            ELSE Raise("TypeError")
      [] x.t = "float" /\ y.t = "list" -> Raise("TypeError")
      [] x.t = "list" /\ y.t = "float" -> Raise("TypeError")
      [] (x.t = "none" /\ y.t \in {"int", "float", "none", "list"})
         \/ (y.t = "none" /\ x.t \in {"int", "float", "list"}) ->
            Raise("TypeError")

CallLam(op, x, y) ==
    IF op.refl THEN ElemOp(op.name, y, x) ELSE ElemOp(op.name, x, y)

\* The one-argument callables handed to apply: `lambda x: -x` and bool.
CallUnary(uop, x) ==
    CASE uop = "neg" /\ x.t = "int" -> Ok(I(-x.n))
      [] uop = "neg" /\ x.t = "float" -> Ok(F(-x.num, x.den))
      [] uop = "neg" /\ x.t \in {"none", "list"} -> Raise("TypeError")
      [] uop = "bool" /\ x.t = "int" -> Ok([t |-> "bool", b |-> x.n # 0])
      [] uop = "bool" /\ x.t = "float" -> Ok([t |-> "bool", b |-> x.num # 0])
      [] uop = "bool" /\ x.t = "none" -> Ok([t |-> "bool", b |-> FALSE])
      [] uop = "bool" /\ x.t = "list" ->
            Ok([t |-> "bool", b |-> x.items # <<>>])

\* ------------------------------------------------------------ comprehension
\* rs[i] is the outcome of the i-th evaluation of a list comprehension's
\* element expression.  The comprehension evaluates them in order and stops
\* at the first one that raises: n is the number of evaluations made.
FirstFail(rs) ==
    IF \E i \in 1..Len(rs) : rs[i].exc # "none"
    THEN CHOOSE i \in 1..Len(rs) :
            /\ rs[i].exc # "none"
            /\ \A j \in 1..(i - 1) : rs[j].exc = "none"
    ELSE 0

ListComp(rs) ==
    LET f == FirstFail(rs)
    IN  IF f = 0
        THEN [out |-> Ok(L([i \in 1..Len(rs) |-> rs[i].v])), n |-> Len(rs)]
        ELSE [out |-> rs[f], n |-> f]

\* self.__class__(lst): UserList.__init__ copies lst into the new instance.
NewVector(lc) ==
    IF lc.exc = "none" THEN Ok(V(lc.v.items)) ELSE lc

IsIterable(x) == x.t \in {"list", "vec"}

\* ------------------------------------------------------------ apply, apply_bin
\* self is the receiver's element sequence.
apply(self, uop) ==
    NewVector(ListComp([i \in 1..Len(self) |-> CallUnary(uop, self[i])]).out)

\* A variant of PairPath: zip_longest(self, other, fillvalue=0) cut to the
\* receiver, so a shorter `other` is padded instead of clipping the result.
PairPathPadded(self, other, op) ==
    IF ~IsIterable(other) THEN [out |-> Raise("TypeError"), n |-> 0]
    ELSE ListComp([i \in 1..Len(self) |->
                      CallLam(op, self[i],
                              IF i <= Len(other.items) THEN other.items[i]
                              ELSE I(0))])

\* [op(x, y) for x, y in zip(self, other)]: zip raises TypeError, before op
\* is called at all, when other is not iterable.
PairPath(self, other, op) ==
    IF ~IsIterable(other) THEN [out |-> Raise("TypeError"), n |-> 0]
    ELSE ListComp([i \in 1..Min(Len(self), Len(other.items)) |->
                      CallLam(op, self[i], other.items[i])])

\* A variant of ScalarPath: [op(x, y) for x, y in zip(self, [other])], which
\* stops after the first receiver element.
ScalarPathZipped(self, other, op) ==
    ListComp([i \in 1..Min(Len(self), 1) |-> CallLam(op, self[i], other)])

\* [op(x, other) for x in self]
ScalarPath(self, other, op) ==
    ListComp([i \in 1..Len(self) |-> CallLam(op, self[i], other)])

\* try: return <pair path> / except TypeError: return <scalar path>.
\* p and s are the two comprehensions' results (s is evaluated only when the
\* pair path raised TypeError).  out: what the call returns or raises;
\* calls[i]: how many times op was invoked with receiver element i.
TryExcept(self, p, s) ==
    IF p.out.exc = "TypeError"
    THEN [out |-> NewVector(s.out),
          calls |-> [i \in 1..Len(self) |->
                       (IF i <= p.n THEN 1 ELSE 0) + (IF i <= s.n THEN 1 ELSE 0)]]
    ELSE [out |-> NewVector(p.out),
          calls |-> [i \in 1..Len(self) |-> IF i <= p.n THEN 1 ELSE 0]]

apply_bin(self, other, op) ==
    TryExcept(self, PairPath(self, other, op), ScalarPath(self, other, op))

\* ------------------------------------------------------------ operator catalogue
\* Each method returns apply_bin's record (outcome and invocation counts).
__add__(self, other) == apply_bin(self, other, Lam("add", FALSE))

__radd__(self, other) == apply_bin(self, other, Lam("add", TRUE))

__sub__(self, other) == apply_bin(self, other, Lam("sub", FALSE))

\* A variant of __rsub__ with the lambda of __sub__.
RsubForward(self, other) == apply_bin(self, other, Lam("sub", FALSE))

__rsub__(self, other) == apply_bin(self, other, Lam("sub", TRUE))

__mul__(self, other) == apply_bin(self, other, Lam("mul", FALSE))

__rmul__(self, other) == apply_bin(self, other, Lam("mul", TRUE))

__truediv__(self, other) == apply_bin(self, other, Lam("truediv", FALSE))

__rtruediv__(self, other) == apply_bin(self, other, Lam("truediv", TRUE))

__floordiv__(self, other) == apply_bin(self, other, Lam("floordiv", FALSE))

__rfloordiv__(self, other) == apply_bin(self, other, Lam("floordiv", TRUE))

__mod__(self, other) == apply_bin(self, other, Lam("mod", FALSE))

__rmod__(self, other) == apply_bin(self, other, Lam("mod", TRUE))

__pow__(self, other) == apply_bin(self, other, Lam("pow", FALSE))

__rpow__(self, other) == apply_bin(self, other, Lam("pow", TRUE))

__lshift__(self, other) == apply_bin(self, other, Lam("lshift", FALSE))

__rlshift__(self, other) == apply_bin(self, other, Lam("lshift", TRUE))

__rshift__(self, other) == apply_bin(self, other, Lam("rshift", FALSE))

__rrshift__(self, other) == apply_bin(self, other, Lam("rshift", TRUE))

__and__(self, other) == apply_bin(self, other, Lam("and", FALSE))

__rand__(self, other) == apply_bin(self, other, Lam("and", TRUE))

__xor__(self, other) == apply_bin(self, other, Lam("xor", FALSE))

__rxor__(self, other) == apply_bin(self, other, Lam("xor", TRUE))

__or__(self, other) == apply_bin(self, other, Lam("or", FALSE))

__ror__(self, other) == apply_bin(self, other, Lam("or", TRUE))

\* A variant of __neg__ whose lambda keeps the sign.
NegKeepsSign(self) == NewVector(Ok(L(self)))

__neg__(self) == apply(self, "neg")

as_bool(self) == apply(self, "bool")

\* The method Python binds `OP` to: __OP__ on the left operand's class,
\* __rOP__ (refl) on the right operand's.
Method(name, refl, self, other) ==
    CASE name = "add" /\ ~refl -> __add__(self, other)
      [] name = "add" /\ refl -> __radd__(self, other)
      [] name = "sub" /\ ~refl -> __sub__(self, other)
      [] name = "sub" /\ refl -> __rsub__(self, other)
      [] name = "mul" /\ ~refl -> __mul__(self, other)
      [] name = "mul" /\ refl -> __rmul__(self, other)
      [] name = "truediv" /\ ~refl -> __truediv__(self, other)
      [] name = "truediv" /\ refl -> __rtruediv__(self, other)
      [] name = "floordiv" /\ ~refl -> __floordiv__(self, other)
      [] name = "floordiv" /\ refl -> __rfloordiv__(self, other)
      [] name = "mod" /\ ~refl -> __mod__(self, other)
      [] name = "mod" /\ refl -> __rmod__(self, other)
      [] name = "pow" /\ ~refl -> __pow__(self, other)
      [] name = "pow" /\ refl -> __rpow__(self, other)
      [] name = "lshift" /\ ~refl -> __lshift__(self, other)
      [] name = "lshift" /\ refl -> __rlshift__(self, other)
      [] name = "rshift" /\ ~refl -> __rshift__(self, other)
      [] name = "rshift" /\ refl -> __rrshift__(self, other)
      [] name = "and" /\ ~refl -> __and__(self, other)
      [] name = "and" /\ refl -> __rand__(self, other)
      [] name = "xor" /\ ~refl -> __xor__(self, other)
      [] name = "xor" /\ refl -> __rxor__(self, other)
      [] name = "or" /\ ~refl -> __or__(self, other)
      [] name = "or" /\ refl -> __ror__(self, other)

\* ------------------------------------------------------------ derived operations
\* Evaluate o, then (when it returned) the rest.
Then(o, rest) == IF o.exc # "none" THEN o ELSE rest

\* sum(items): 0 + items[1] + items[2] + ... over numbers.
RECURSIVE SumFrom(_, _)
SumFrom(acc, items) ==
    IF acc.exc # "none" \/ items = <<>> THEN acc
    ELSE SumFrom(ElemOp("add", acc.v, Head(items)), Tail(items))

PySum(m) == Then(m, SumFrom(Ok(I(0)), m.v.items))

\* `x * y` where y may be a Vector: a Vector on the left answers with
\* __mul__; a Vector on the right of an int, float, None or plain list
\* answers with __rmul__ (none of those types implements * for a Vector
\* operand: list has no number slots, so even list * Vector gets there).
PyMul(x, y) ==
    CASE x.t = "vec" -> __mul__(x.items, y).out
      [] x.t # "vec" /\ y.t = "vec" -> __rmul__(y.items, x).out
      [] x.t # "vec" /\ y.t # "vec" -> ElemOp("mul", x, y)

PyMulOutcome(c, other) == Then(c, PyMul(c.v, other))

\* A variant of __matmul__: sum(self + other).
MatmulOfSum(self, other) == PySum(__add__(self, other).out)

\* sum(self * other)
__matmul__(self, other) == PySum(__mul__(self, other).out)

\* sum(other * self)
__rmatmul__(self, other) == PySum(PyMul(other, V(self)))

\* `other @ other` inside proj: a plain list or a scalar defines no @.
SelfMatmul(other) ==
    IF other.t = "vec" THEN __matmul__(other.items, other)
    ELSE Raise("TypeError")

PairOf(q, r) == Then(q, Then(r, Ok(T2(q.v, r.v))))

\* self // other, self % other
__divmod__(self, other) ==
    PairOf(__floordiv__(self, other).out, __mod__(self, other).out)

\* A variant of __rdivmod__ with the body of __divmod__.
RdivmodForward(self, other) ==
    PairOf(__floordiv__(self, other).out, __mod__(self, other).out)

\* other // self, other % self (other is no Vector: the reflected methods)
__rdivmod__(self, other) ==
    PairOf(__rfloordiv__(self, other).out, __rmod__(self, other).out)

\* so / oo * other, evaluated left to right
Scale(so, oo, other) ==
    Then(so, Then(oo, PyMulOutcome(ElemOp("truediv", so.v, oo.v), other)))

\* A variant of proj that divides by self @ self.
ProjOverSelfNorm(self, other) ==
    Scale(__matmul__(self, other), __matmul__(self, V(self)), other)

\* (self @ other) / (other @ other) * other
proj(self, other) ==
    Scale(__matmul__(self, other), SelfMatmul(other), other)

\* ------------------------------------------------------------ state
\* store  the list objects held as `data` by the live Vectors (index = identity)
\* env    the session's names: a (the receiver), b (a Vector passed as
\*        `other`), r and r2 (the Vector(s) the last call returned);
\*        each is an index into store, 0 when unbound
\* last   the most recent step: a call with its operands as they were when
\*        it started, its outcome and apply_bin's invocation counts, or a
\*        list mutation (called: whether the session's call came before it)
VARIABLES store, env, last

vars == <<store, env, last>>

\* ------------------------------------------------------------ inputs
SeqsUpTo(S, n) == UNION {[1..k -> S] : k \in 0..n}

IntVals == {I(n) : n \in 0..MaxInt}

VecInputs == SeqsUpTo(IntVals, MaxLen)

\* What a caller passes as `other`: a scalar, None, a plain list (ints and
\* None), a Vector built for the call, or the receiver itself.
PlainOperands ==
    IntVals \cup {I(-1), NoneV}
    \cup {L(s) : s \in SeqsUpTo(IntVals \cup {NoneV}, MaxLen)}

Operands ==
    {[k |-> "plain", v |-> v] : v \in PlainOperands}
    \cup {[k |-> "vec", v |-> V(s)] : s \in VecInputs}
    \cup {[k |-> "self"]}

Init ==
    /\ store \in {<<s>> : s \in VecInputs}
    /\ env = [a |-> 1, b |-> 0, r |-> 0, r2 |-> 0]
    /\ last = [kind |-> "init"]

\* ------------------------------------------------------------ calls
\* A variant of Instantiate: the items are stored into the receiver, which
\* is returned.
InstantiateInPlace(st, self, items) ==
    [store |-> [st EXCEPT ![self] = items], ref |-> self]

\* self.__class__(items): a new instance whose data is a list of its own.
Instantiate(st, self, items) ==
    [store |-> Append(st, items), ref |-> Len(st) + 1]

\* The store when the call starts: the receiver, and the Vector built as
\* `other` if there is one (earlier results are no longer referenced).
Before(o) ==
    IF o.k = "vec" THEN <<store[env.a], o.v.items>> ELSE <<store[env.a]>>

\* A call without operand (apply) has o.k = "absent".
OtherRef(o) ==
    CASE o.k = "vec" -> 2
      [] o.k = "self" -> 1
      [] o.k \in {"plain", "absent"} -> 0

BRef(o) == IF o.k = "vec" THEN 2 ELSE 0

OtherVal(o) ==
    CASE o.k = "self" -> V(store[env.a])
      [] o.k \in {"plain", "vec"} -> o.v
      [] o.k = "absent" -> NoneV

\* A session makes one call: none has been made yet.
CanCall == last.kind = "init" \/ (last.kind = "mutate" /\ ~last.called)

NoLam == Lam("none", FALSE)

\* The step of a call of `method` (with lambda op, for the operators built
\* on apply_bin) with operand o that ended as rec.out.
Returns(method, op, o, rec) ==
    LET st == Before(o)
        out == rec.out
        one == Instantiate(st, 1, out.v.items)
        fst == Instantiate(st, 1, out.v.fst.items)
        snd == Instantiate(fst.store, 1, out.v.snd.items)
    IN  /\ CanCall
        /\ last' = [kind |-> "call", method |-> method, op |-> op,
                    self |-> st[1],
                    okind |-> o.k,
                    other |-> OtherVal(o), oref |-> OtherRef(o),
                    out |-> out, calls |-> rec.calls]
        /\ CASE out.exc = "none" /\ out.v.t = "vec" ->
                  /\ store' = one.store
                  /\ env' = [a |-> 1, b |-> BRef(o), r |-> one.ref, r2 |-> 0]
             [] out.exc = "none" /\ out.v.t = "tuple" ->
                  /\ store' = snd.store
                  /\ env' = [a |-> 1, b |-> BRef(o),
                             r |-> fst.ref, r2 |-> snd.ref]
             [] out.exc # "none" \/ out.v.t \notin {"vec", "tuple"} ->
                  /\ store' = st
                  /\ env' = [a |-> 1, b |-> BRef(o), r |-> 0, r2 |-> 0]


\* r = a OP other (refl = FALSE) or r = other OP a (refl = TRUE; Python
\* reaches __rOP__ only when the left operand is no Vector).
Operator(name, refl, o) ==
    /\ refl => o.k = "plain"
    /\ Returns("operator", Lam(name, refl), o,
               Method(name, refl, store[env.a], OtherVal(o)))

Unmetered(out) == [out |-> out, calls |-> <<>>]

\* r = -a
Neg ==
    /\ CanCall
    /\ Returns("neg", NoLam, [k |-> "absent"], Unmetered(__neg__(store[env.a])))

\* r = a.as_bool()
AsBool ==
    /\ CanCall
    /\ Returns("as_bool", NoLam, [k |-> "absent"],
               Unmetered(as_bool(store[env.a])))

\* r = a @ other
Matmul(o) ==
    Returns("matmul", NoLam, o, Unmetered(__matmul__(store[env.a], OtherVal(o))))

\* r = other @ a
RMatmul(o) ==
    /\ o.k = "plain"
    /\ Returns("rmatmul", NoLam, o, Unmetered(__rmatmul__(store[env.a], OtherVal(o))))

\* r, r2 = divmod(a, other)
Divmod(o) ==
    Returns("divmod", NoLam, o, Unmetered(__divmod__(store[env.a], OtherVal(o))))

\* r, r2 = divmod(other, a)
RDivmod(o) ==
    /\ o.k = "plain"
    /\ Returns("rdivmod", NoLam, o, Unmetered(__rdivmod__(store[env.a], OtherVal(o))))

\* r = a.proj(other)
Proj(o) ==
    Returns("proj", NoLam, o, Unmetered(proj(store[env.a], OtherVal(o))))

\* ------------------------------------------------------------ list mutation
\* The UserList methods a Vector inherits act on the instance's own data.
\* A session mutates the receiver before its call, or any Vector it holds
\* after the call.
Bound == {env.a, env.b, env.r, env.r2} \ {0}

CanMutate == last.kind \in {"init", "call"}

Mutated(k, items) ==
    /\ CanMutate
    /\ k \in Bound
    /\ store' = [store EXCEPT ![k] = items]
    /\ last' = [kind |-> "mutate", ref |-> k, called |-> last.kind = "call"]
    /\ UNCHANGED env

\* v.append(x)
ListAppend(k, x) ==
    /\ k \in Bound
    /\ Len(store[k]) < MaxLen
    /\ Mutated(k, Append(store[k], x))

\* v[i] = x
SetItem(k, i, x) ==
    /\ k \in Bound
    /\ i \in 1..Len(store[k])
    /\ Mutated(k, [store[k] EXCEPT ![i] = x])

\* v.extend(xs)
Extend(k, xs) ==
    /\ k \in Bound
    /\ Len(store[k]) + Len(xs) <= MaxLen
    /\ Mutated(k, store[k] \o xs)

CallOperator ==
    /\ CanCall
    /\ \E name \in OpNames, refl \in BOOLEAN, o \in Operands :
          Operator(name, refl, o)

CallMatmul == CanCall /\ \E o \in Operands : Matmul(o)

CallRMatmul == CanCall /\ \E o \in Operands : RMatmul(o)

CallDivmod == CanCall /\ \E o \in Operands : Divmod(o)

CallRDivmod == CanCall /\ \E o \in Operands : RDivmod(o)

CallProj == CanCall /\ \E o \in Operands : Proj(o)

DoAppend == CanMutate /\ \E k \in Bound, x \in IntVals : ListAppend(k, x)

DoSetItem ==
    CanMutate /\ \E k \in Bound, i \in 1..MaxLen, x \in IntVals : SetItem(k, i, x)

DoExtend == CanMutate /\ \E k \in Bound, x \in IntVals : Extend(k, <<x, x>>)

Next ==
    \/ CallOperator
    \/ Neg
    \/ AsBool
    \/ CallMatmul
    \/ CallRMatmul
    \/ CallDivmod
    \/ CallRDivmod
    \/ CallProj
    \/ DoAppend
    \/ DoSetItem
    \/ DoExtend

Spec == Init /\ [][Next]_vars


\* ------------------------------------------------------------ properties
IsCall(m) == last.kind = "call" /\ last.method = m

\* The operand list of an iterable `other`.
OtherItems == last.other.items

AllInts(s) == \A i \in 1..Len(s) : s[i].t = "int"

\* Number of positions zip pairs.
Paired == Min(Len(last.self), Len(OtherItems))

\* op applied to the i-th pair / to the i-th receiver element and `other`.
PairAt(i) == CallLam(last.op, last.self[i], OtherItems[i])

ScalarAt(i) == CallLam(last.op, last.self[i], last.other)

\* C1: with an iterable `other` and an op that succeeds on every pair, an
\* operator built on apply_bin returns a Vector of length min(m, k) whose
\* element i is op(receiver[i], other[i]); nothing is raised when m # k.
C1_Truncation ==
    (/\ IsCall("operator")
     /\ IsIterable(last.other)
     /\ \A i \in 1..Paired : PairAt(i).exc = "none")
    => /\ last.out.exc = "none"
       /\ last.out.v.t = "vec"
       /\ Len(last.out.v.items) = Paired
       /\ \A i \in 1..Paired : last.out.v.items[i] = PairAt(i).v

\* A sum of a longer receiver and a shorter, non-empty plain list returned.
C1_Witness ==
    /\ IsCall("operator")
    /\ last.op = Lam("add", FALSE)
    /\ last.okind = "plain"
    /\ IsIterable(last.other)
    /\ Len(OtherItems) >= 1
    /\ Len(last.self) > Len(OtherItems)
    /\ last.out.exc = "none"

\* C2: with a non-iterable `other` s (and an op defined on every (a[i], s)),
\* the result is a Vector as long as the receiver whose element i is
\* op(a[i], s), the empty receiver included; when op raises on some
\* (a[i], s) the call raises.
C2_Broadcast ==
    (IsCall("operator") /\ ~IsIterable(last.other))
    => IF \A i \in 1..Len(last.self) : ScalarAt(i).exc = "none"
       THEN /\ last.out.exc = "none"
            /\ last.out.v.t = "vec"
            /\ Len(last.out.v.items) = Len(last.self)
            /\ \A i \in 1..Len(last.self) : last.out.v.items[i] = ScalarAt(i).v
       ELSE last.out.exc # "none"

\* A scalar was subtracted from a receiver of the greatest input length.
C2_Witness ==
    /\ IsCall("operator")
    /\ last.op = Lam("sub", FALSE)
    /\ last.other = I(1)
    /\ Len(last.self) = MaxLen
    /\ last.out.exc = "none"
    /\ Len(last.out.v.items) = MaxLen

\* C3 (as claimed): when `other` is iterable and op fails on some pair, the
\* call returns no Vector: it raises the failure of the first failing pair.
\* (That op is then never called with the whole `other` is the invocation
\* count of C10.)
C3_PairFailurePropagates ==
    (/\ IsCall("operator")
     /\ IsIterable(last.other)
     /\ \E i \in 1..Paired : PairAt(i).exc # "none")
    => /\ last.out.exc # "none"
       /\ \E i \in 1..Paired :
             /\ last.out = PairAt(i)
             /\ \A j \in 1..(i - 1) : PairAt(j).exc = "none"

\* C10 (as claimed): within one call of apply_bin, op is invoked at most
\* once for each index of the receiver.
C10_OpAtMostOncePerIndex ==
    IsCall("operator") => \A i \in 1..Len(last.self) : last.calls[i] <= 1

\* The names the session has bound, and the list each one holds.
Names == {"a", "b", "r", "r2"}

BoundNames == {x \in Names : env[x] # 0}

\* C4: a call leaves the receiver and a Vector `other` with the elements
\* they had, whether it returns or raises; every Vector it returns has a
\* data list of its own; and a later mutation of one Vector (the result, the
\* receiver, the operand) changes no other Vector the session holds.
C4_Frame ==
    [][/\ last'.kind = "call" =>
             /\ store'[env'.a] = store[env.a]
             /\ store'[env'.a] = last'.self
             /\ last'.okind = "vec" => store'[env'.b] = last'.other.items
             /\ \A x, y \in {z \in Names : env'[z] # 0} :
                   x # y => env'[x] # env'[y]
             /\ last'.out.exc # "none" => env'.r = 0 /\ env'.r2 = 0
       /\ last'.kind = "mutate" =>
             \E x \in BoundNames :
                /\ env[x] = last'.ref
                /\ \A y \in BoundNames \ {x} : store'[env[y]] = store[env[y]]
                /\ env' = env]_vars

\* The result of a call was mutated and now differs from what was returned,
\* next to a non-empty receiver.
C4_Witness ==
    /\ last.kind = "mutate"
    /\ last.called
    /\ env.r # 0
    /\ last.ref = env.r
    /\ store[env.a] # <<>>
    /\ store[env.r] # store[env.a]

\* sum of a[i] * b[i] over the paired indices, on the ints themselves.
RECURSIVE DotSum(_, _, _)
DotSum(a, b, n) ==
    IF n = 0 THEN 0 ELSE DotSum(a, b, n - 1) + a[n].n * b[n].n

Forward == Method(last.op.name, FALSE, last.self, last.other).out

\* C6 (as claimed): for every operator with a reflected form, `o OP v`
\* equals `v OP o` element by element.
C6_ReflectedEqualsForward ==
    (IsCall("operator") /\ last.op.refl) => last.out = Forward

Commutative == {"add", "mul", "and", "xor", "or"}

\* A scalar int or a plain list of ints.
Numeric(o) == o.t = "int" \/ (o.t = "list" /\ AllInts(o.items))

\* The i-th left operand of `o OP v`: o[i] for a list o, o for a scalar.
LeftAt(i) == IF IsIterable(last.other) THEN OtherItems[i] ELSE last.other

\* C6 (amended): `o OP v` equals `v OP o` for the commutative operators
\* (add, multiply, and, xor, or).  For every operator with a reflected form
\* and o a number or a plain list of numbers, `o OP v` has the length of
\* `v OP o` (when both return) and its element i is o_i OP v[i], the
\* operands in the order written.
C6_Reflection ==
    (IsCall("operator") /\ last.op.refl)
    => /\ last.op.name \in Commutative => last.out = Forward
       /\ (Numeric(last.other) /\ last.out.exc = "none") =>
             /\ Forward.exc = "none" =>
                   Len(last.out.v.items) = Len(Forward.v.items)
             /\ \A i \in 1..Len(last.out.v.items) :
                   last.out.v.items[i]
                      = ElemOp(last.op.name, LeftAt(i), last.self[i]).v

\* A reflected subtraction with a plain list returned something else than
\* the forward subtraction.
C6_Witness ==
    /\ IsCall("operator")
    /\ last.op = Lam("sub", TRUE)
    /\ last.other.t = "list"
    /\ last.out.exc = "none"
    /\ Len(last.out.v.items) >= 1
    /\ last.out # Forward

\* -(x), for an outcome x holding a Vector.
Negated(x) == Then(x, __neg__(x.v.items))

\* C7: for Vectors a, b of ints of equal length, a + b = b + a,
\* a * b = b * a, a @ b = b @ a and a - b = -(b - a).
C7_Commutes ==
    (/\ last.kind = "call"
     /\ last.okind \in {"vec", "self"}
     /\ Len(last.self) = Len(OtherItems))
    => /\ (last.method = "operator" /\ last.op = Lam("add", FALSE)) =>
             last.out = __add__(OtherItems, V(last.self)).out
       /\ (last.method = "operator" /\ last.op = Lam("mul", FALSE)) =>
             last.out = __mul__(OtherItems, V(last.self)).out
       /\ last.method = "matmul" =>
             last.out = __matmul__(OtherItems, V(last.self))
       /\ (last.method = "operator" /\ last.op = Lam("sub", FALSE)) =>
             last.out = Negated(__sub__(OtherItems, V(last.self)).out)

\* a - b for two different Vectors of the greatest input length.
C7_Witness ==
    /\ IsCall("operator")
    /\ last.op = Lam("sub", FALSE)
    /\ last.okind = "vec"
    /\ Len(last.self) = MaxLen
    /\ Len(OtherItems) = MaxLen
    /\ OtherItems # last.self
    /\ last.out.exc = "none"

\* For the divmod calls: how many divisions are made, and the i-th dividend
\* and divisor (the receiver divides for divmod(a, b), is divided for
\* divmod(b, a)).
Divisions == IF IsIterable(last.other) THEN Paired ELSE Len(last.self)

DividendAt(i) == IF last.method = "divmod" THEN last.self[i] ELSE LeftAt(i)

DivisorAt(i) == IF last.method = "divmod" THEN LeftAt(i) ELSE last.self[i]

\* The two operators a divmod is made of, on the last call's operands.
Quotient ==
    IF last.method = "divmod" THEN __floordiv__(last.self, last.other).out
    ELSE __rfloordiv__(last.self, last.other).out

Remainder ==
    IF last.method = "divmod" THEN __mod__(last.self, last.other).out
    ELSE __rmod__(last.self, last.other).out

\* C8: divmod(a, b) is the pair (a // b, a % b) and divmod(b, a), the
\* Vector on the right, the pair (b // a, b % a), each component being what
\* the operator returns on its own; on ints, component elements are the
\* floor quotient and the remainder of each division made, in number
\* min(m, k) for a sequence and m for a scalar; a division by a zero element
\* makes the divmod raise with no pair returned.
C8_Divmod ==
    (last.kind = "call" /\ last.method \in {"divmod", "rdivmod"})
    => /\ IF Quotient.exc = "none" /\ Remainder.exc = "none"
          THEN last.out = Ok(T2(Quotient.v, Remainder.v))
          ELSE last.out.exc # "none"
       /\ Numeric(last.other) \/ last.other.t = "vec" =>
             IF \E i \in 1..Divisions : DivisorAt(i).n = 0
             THEN last.out = Raise("ZeroDivisionError")
             ELSE /\ last.out.exc = "none"
                  /\ last.out.v.t = "tuple"
                  /\ last.out.v.fst =
                        V([i \in 1..Divisions |->
                             I(DividendAt(i).n \div DivisorAt(i).n)])
                  /\ last.out.v.snd =
                        V([i \in 1..Divisions |->
                             I(DividendAt(i).n - DivisorAt(i).n
                                 * (DividendAt(i).n \div DivisorAt(i).n))])

\* divmod(b, a) of a longer plain list b by a Vector a returned a pair whose
\* quotient is not all zero.
C8_Witness ==
    /\ IsCall("rdivmod")
    /\ last.other.t = "list"
    /\ Len(OtherItems) > Len(last.self)
    /\ last.out.exc = "none"
    /\ \E i \in 1..Len(last.out.v.fst.items) : last.out.v.fst.items[i] # I(0)

\* C9: a.proj(b) for a Vector b raises ZeroDivisionError when b @ b is zero
\* (b all zeros, or empty), whatever the receiver; otherwise it returns a
\* Vector as long as b whose element i is (a @ b) / (b @ b) * b[i].
C9_Proj ==
    (IsCall("proj") /\ last.okind \in {"vec", "self"})
    => LET ab == DotSum(last.self, OtherItems, Paired)
           bb == DotSum(OtherItems, OtherItems, Len(OtherItems))
       IN  IF bb = 0
           THEN last.out = Raise("ZeroDivisionError")
           ELSE last.out =
                   Ok(V([i \in 1..Len(OtherItems) |->
                           F(ab * OtherItems[i].n, bb)]))

\* A projection on a non-empty all-zero Vector, from a non-empty receiver.
C9_Witness ==
    /\ IsCall("proj")
    /\ last.okind = "vec"
    /\ Len(OtherItems) = MaxLen
    /\ \A i \in 1..Len(OtherItems) : OtherItems[i] = I(0)
    /\ last.self # <<>>
    /\ last.out = Raise("ZeroDivisionError")

=============================================================================
